---------------------------- MODULE Spec2Model ----------------------------
(***************************************************************************)
(* Model of the block downloader of ethcore/sync (block_sync.rs): the      *)
(* BlockDownloader state machine, its round bookkeeping and import loop,   *)
(* driving a BlockCollection.  BlockCollection (blocks.rs) is not part of  *)
(* the sources at hand; its operations (the blocks_* operators) follow the *)
(* specification's section 4.2.                                            *)
(***************************************************************************)
EXTENDS Integers, Sequences, FiniteSets, TLC

(***************************************************************************)
(* Program constants (block_sync.rs:33-39).                                *)
(***************************************************************************)
MAX_HEADERS_TO_REQUEST == 128
MAX_BODIES_TO_REQUEST == 32
MAX_RECEPITS_TO_REQUEST == 128
SUBCHAIN_SIZE == 256
MAX_ROUND_PARENTS == 16
MAX_PARALLEL_SUBCHAIN_DOWNLOAD == 5
MAX_USELESS_HEADERS_PER_ROUND == 3

(***************************************************************************)
(* Bounds of the model.                                                    *)
(***************************************************************************)
\* useless_headers_count is not capped by the code when there is one head
MaxUselessCount == 4
\* retract_step doubles without limit
MaxRetractStep == 2
\* imported_this_round grows with every mark_as_known and import
MaxImportedThisRound == 1
\* blocks treated as imported over one behaviour of Spec
MaxImports == 1
\* blocks treated as imported over one behaviour of SpecRound
MaxImportsRound == 18
\* chain_info().best_block_number and pruning_info().earliest_state answer 0..OracleMax
OracleMax == 2

(***************************************************************************)
(* The headers peers can send.  A header is named by its hash; its number  *)
(* and parent hash are fixed by the hash.  g <- a is a chain, x is a child *)
(* of a that the chain reports as Bad, "junk" is an item that does not     *)
(* decode.                                                                 *)
(***************************************************************************)
GoodHashes == {"g", "a"}
BadHashes == {"x"}
Hashes == GoodHashes \cup BadHashes
Junk == "junk"
ZeroHash == "z"

Number(h) ==
    CASE h = "g" -> 0
      [] h = "a" -> 1
      [] h = "x" -> 2
      [] OTHER -> 0

Parent(h) ==
    CASE h = "g" -> ZeroHash
      [] h = "a" -> "g"
      [] h = "x" -> "a"
      [] OTHER -> ZeroHash

\* chain.block_hash(BlockId::Number(n)) when the chain has a block at n
HashAt(n) ==
    CASE n = 0 -> "g"
      [] OTHER -> "a"

\* Option<T>: None is <<>>, Some(v) is <<v>>
None == <<>>
Some(v) == <<v>>
Unwrap(o) == o[1]
UnwrapOr(o, d) == IF o = <<>> THEN d ELSE o[1]

Min(a, b) == IF a < b THEN a ELSE b

Range(s) == {s[i] : i \in 1..Len(s)}

\* sequences of at most 2 distinct elements of S
Seq2(S) ==
    {<<>>} \cup {<<u>> : u \in S}
    \cup {<<p[1], p[2]>> : p \in {q \in S \X S : q[1] /= q[2]}}

VARIABLES
    block_set,              \* "NewBlocks" | "OldBlocks"
    state,                  \* "Idle" | "ChainHead" | "Blocks" | "Complete"
    highest_block,          \* Option<BlockNumber>
    blocks,                 \* the BlockCollection
    last_imported_block,
    last_imported_hash,
    imported_this_round,    \* Option<usize>
    last_round_start,
    last_round_start_hash,
    round_parents,          \* sequence of <<hash, parent>>, oldest first
    target_hash,            \* Option<H256>
    retract_step,
    useless_headers_count,
    \* history of the run, not read by the program:
    import_log,             \* every <<hash, parent>> block_imported was given, in order
    called_complete,        \* a request, response or collect call ran in state Complete
    in_flight               \* the coordinator's outstanding requests, [peer, req]

vars == <<block_set, state, highest_block, blocks, last_imported_block,
          last_imported_hash, imported_this_round, last_round_start,
          last_round_start_hash, round_parents, target_hash, retract_step,
          useless_headers_count, import_log, called_complete, in_flight>>

\* the hashes collect_blocks submitted and the chain took or had already
committed == {import_log[i][1] : i \in 1..Len(import_log)}

\* BlockDownloader::new: the policy of the track
limit_reorg == block_set = "NewBlocks"
download_receipts == block_set = "OldBlocks"

(***************************************************************************)
(* BlockCollection.  heads: the subchain heads in the order installed;     *)
(* headers: the hashes in the header index; bodies, receipts: the hashes   *)
(* whose body / receipts slot is filled; head: the anchor from which       *)
(* drain() extracts; downloading_*: the marks.                             *)
(***************************************************************************)
blocks_new ==
    [heads |-> <<>>, headers |-> {}, bodies |-> {}, receipts |-> {},
     head |-> None,
     downloading_headers |-> {}, downloading_bodies |-> {},
     downloading_receipts |-> {}]

blocks_clear(c) == blocks_new

blocks_reset_to(c, hashes) == [blocks_clear(c) EXCEPT !.heads = hashes]

blocks_contains(c, h) == h \in c.headers
blocks_contains_head(c, h) == h \in Range(c.heads)
blocks_heads_len(c) == Len(c.heads)
blocks_is_empty(c) == Len(c.heads) = 0 /\ c.headers = {}

\* the parent index: the indexed header whose parent is p, if any
blocks_child(c, p) ==
    LET kids == {h \in c.headers : Parent(h) = p}
    IN  IF kids = {} THEN None ELSE Some(CHOOSE h \in kids : TRUE)

\* one header: index it with empty slots, link it, drop its downloading mark
blocks_insert_header(c, h) ==
    IF h \in c.headers THEN c
    ELSE [c EXCEPT
            !.head = IF c.head = None /\ Len(c.heads) > 0 /\ h = c.heads[1]
                     THEN Some(Parent(h)) ELSE c.head,
            !.headers = c.headers \cup {h},
            !.downloading_headers = c.downloading_headers \ {h}]

\* where the subchain that started at head s now ends: None when it reached
\* another subchain's head (the two are merged)
RECURSIVE blocks_subchain_tip(_, _, _, _)
blocks_subchain_tip(c, old, h, fuel) ==
    LET next == blocks_child(c, h)
    IN  IF next = None \/ fuel = 0 THEN Some(h)
        ELSE IF Unwrap(next) \in old THEN None
        ELSE blocks_subchain_tip(c, old, Unwrap(next), fuel - 1)

RECURSIVE blocks_new_heads(_, _, _)
blocks_new_heads(c, old, i) ==
    IF i > Len(c.heads) THEN <<>>
    ELSE LET s == c.heads[i]
             tip == IF ~blocks_contains(c, s) THEN Some(s)
                    ELSE blocks_subchain_tip(c, old, s, Cardinality(Hashes))
         IN  tip \o blocks_new_heads(c, old, i + 1)

blocks_update_heads(c) ==
    [c EXCEPT !.heads = blocks_new_heads(c, Range(c.heads), 1)]

RECURSIVE blocks_insert_each(_, _, _)
blocks_insert_each(c, hdrs, i) ==
    IF i > Len(hdrs) THEN c
    ELSE blocks_insert_each(blocks_insert_header(c, hdrs[i]), hdrs, i + 1)

blocks_insert_headers(c, hdrs) ==
    blocks_update_heads(blocks_insert_each(c, hdrs, 1))

\* bodies (each named by the hash of its block) against the headers whose body
\* slot is empty and marked as downloading; the number matched
RECURSIVE blocks_insert_bodies(_, _, _, _)
blocks_insert_bodies(c, bodies, i, n) ==
    IF i > Len(bodies) THEN [c |-> c, matched |-> n]
    ELSE LET b == bodies[i]
             hit == b \in c.headers /\ b \notin c.bodies
                    /\ b \in c.downloading_bodies
         IN  IF hit
             THEN blocks_insert_bodies(
                    [c EXCEPT !.bodies = c.bodies \cup {b},
                              !.downloading_bodies = c.downloading_bodies \ {b}],
                    bodies, i + 1, n + 1)
             ELSE blocks_insert_bodies(c, bodies, i + 1, n)

RECURSIVE blocks_insert_receipts(_, _, _, _)
blocks_insert_receipts(c, receipts, i, n) ==
    IF i > Len(receipts) THEN [c |-> c, matched |-> n]
    ELSE LET r == receipts[i]
             hit == r \in c.headers /\ r \notin c.receipts
                    /\ r \in c.downloading_receipts
         IN  IF hit
             THEN blocks_insert_receipts(
                    [c EXCEPT !.receipts = c.receipts \cup {r},
                              !.downloading_receipts = c.downloading_receipts \ {r}],
                    receipts, i + 1, n + 1)
             ELSE blocks_insert_receipts(c, receipts, i + 1, n)

\* at most max elements of S
TakeUpTo(S, max) ==
    IF Cardinality(S) <= max THEN S
    ELSE CHOOSE T \in SUBSET S : Cardinality(T) = max

\* needed_bodies(max, false): the hashes to ask for, marked before returning
blocks_needed_bodies(c, max) ==
    LET need == TakeUpTo((c.headers \ c.bodies) \ c.downloading_bodies, max)
    IN  [c |-> [c EXCEPT !.downloading_bodies = c.downloading_bodies \cup need],
         hashes |-> need]

blocks_needed_receipts(c, max) ==
    LET need == TakeUpTo((c.headers \ c.receipts) \ c.downloading_receipts, max)
    IN  [c |-> [c EXCEPT !.downloading_receipts = c.downloading_receipts \cup need],
         hashes |-> need]

\* needed_headers(max, false): the first head, in installed order, that is not
\* being downloaded
blocks_needed_headers(c, max) ==
    LET free == {i \in 1..Len(c.heads) : c.heads[i] \notin c.downloading_headers}
    IN  IF free = {} THEN [c |-> c, request |-> None]
        ELSE LET i == CHOOSE k \in free : \A m \in free : k <= m
             IN  [c |-> [c EXCEPT !.downloading_headers =
                                     c.downloading_headers \cup {c.heads[i]}],
                  request |-> Some(<<c.heads[i], max>>)]

blocks_ready(c, h, need_receipts) ==
    h \in c.bodies /\ (~need_receipts \/ h \in c.receipts)

\* drain(): the ready blocks that follow the anchor, parent before child
RECURSIVE blocks_drain_from(_, _, _, _)
blocks_drain_from(c, anchor, need_receipts, fuel) ==
    LET next == blocks_child(c, anchor)
    IN  IF next = None \/ fuel = 0 THEN <<>>
        ELSE IF ~blocks_ready(c, Unwrap(next), need_receipts) THEN <<>>
        ELSE <<Unwrap(next)>>
             \o blocks_drain_from(c, Unwrap(next), need_receipts, fuel - 1)

blocks_drain(c, need_receipts) ==
    IF c.headers = {} \/ c.head = None THEN [c |-> c, drained |-> <<>>]
    ELSE LET d == blocks_drain_from(c, Unwrap(c.head), need_receipts,
                                    Cardinality(Hashes))
         IN  [c |-> [c EXCEPT !.headers = c.headers \ Range(d),
                              !.bodies = c.bodies \ Range(d),
                              !.receipts = c.receipts \ Range(d),
                              !.head = IF d = <<>> THEN c.head
                                       ELSE Some(d[Len(d)])],
              drained |-> d]

blocks_clear_header_download(c, h) ==
    [c EXCEPT !.downloading_headers = c.downloading_headers \ {h}]
blocks_clear_body_download(c, hs) ==
    [c EXCEPT !.downloading_bodies = c.downloading_bodies \ hs]
blocks_clear_receipt_download(c, hs) ==
    [c EXCEPT !.downloading_receipts = c.downloading_receipts \ hs]

(***************************************************************************)
(* The downloader's steps.                                                 *)
(***************************************************************************)
\* a reset that keeps the collection
reset_keep ==
    [blocks |-> blocks, useless |-> 0, state |-> "Idle"]

\* reset(): [blocks, useless, state]
reset ==
    [blocks |-> blocks_clear(blocks), useless |-> 0, state |-> "Idle"]

\* a chain that reports no block as Bad
block_status_lenient(h) ==
    IF h \in committed \/ h = "g" THEN "InChain" ELSE "Unknown"

\* chain.block_status(BlockId::Hash(h)); InChain and Queued lead the same way
block_status(h) ==
    IF h \in BadHashes THEN "Bad"
    ELSE IF h \in committed \/ h = "g" THEN "InChain"
    ELSE "Unknown"

\* the lowest block number seen instead of the highest
HighestAfterMin(hb, number) ==
    IF hb = None \/ number < Unwrap(hb) THEN Some(number) ELSE hb

\* import_headers, "highest block number seen"
HighestAfter(hb, number) ==
    IF hb = None \/ number > Unwrap(hb) THEN Some(number) ELSE hb

\* import_headers, the loop over the items: acc = [err, valid, any_known,
\* highest, staged]; an item that does not decode or is Bad ends the call
RECURSIVE ScanHeaders(_, _, _, _)
ScanHeaders(r, expected_hash, i, acc) ==
    IF i > Len(r) \/ acc.err THEN acc
    ELSE LET hash == r[i] IN
         IF hash = Junk THEN [acc EXCEPT !.err = TRUE]
         ELSE
         LET valid == IF ~acc.valid /\ expected_hash /= None
                      THEN Unwrap(expected_hash) = hash ELSE acc.valid
             known == acc.any_known \/ blocks_contains_head(blocks, hash)
             a1 == [acc EXCEPT !.valid = valid, !.any_known = known]
         IN  IF blocks_contains(blocks, hash)
             THEN ScanHeaders(r, expected_hash, i + 1, a1)
             ELSE LET a2 == [a1 EXCEPT
                               !.highest = HighestAfter(acc.highest, Number(hash))]
                  IN  IF block_status(hash) = "Bad"
                      THEN [a2 EXCEPT !.err = TRUE]
                      ELSE ScanHeaders(r, expected_hash, i + 1,
                                       [a2 EXCEPT !.staged = Append(a2.staged, hash)])

\* the test with last > 0 in place of last = 0 \/ ...
NoCommonBlockPositive(best, oldest_reorg) ==
    LET last == last_imported_block
    IN  limit_reorg /\ best > last /\ last > 0 /\ last < oldest_reorg

\* the ChainHead arm's test on an empty staging list
NoCommonBlock(best, oldest_reorg) ==
    LET last == last_imported_block
    IN  limit_reorg /\ best > last /\ (last = 0 \/ last < oldest_reorg)

\* the test without the condition on more than one head
UselessResetAnyHeads(count) ==
    blocks_heads_len(blocks) >= 1 /\ count >= MAX_USELESS_HEADERS_PER_ROUND

\* the Blocks arm's test for a round reset after a useless response
UselessReset(count) ==
    blocks_heads_len(blocks) > 1 /\ count >= MAX_USELESS_HEADERS_PER_ROUND

\* import_headers: [ret, state, blocks, highest, useless, asked] where asked
\* tells whether chain_info / pruning_info were consulted
import_headers(r, expected_hash, best, oldest_reorg) ==
    LET same == [ret |-> "Ok(None)", state |-> state, blocks |-> blocks,
                 highest |-> highest_block, useless |-> useless_headers_count,
                 asked |-> FALSE]
    IN
    IF state = "Idle" THEN same
    ELSE IF Len(r) = 0 /\ state = "Blocks"
    THEN [same EXCEPT !.ret = "Err(Invalid)"]
    ELSE
    LET acc == ScanHeaders(r, expected_hash, 1,
                   [err |-> FALSE, valid |-> Len(r) = 0, any_known |-> FALSE,
                    highest |-> highest_block, staged |-> <<>>])
        seen == [same EXCEPT !.highest = acc.highest]
    IN
    IF acc.err THEN [seen EXCEPT !.ret = "Err(Invalid)"]
    ELSE IF ~acc.valid THEN [seen EXCEPT !.ret = "Err(Invalid)"]
    ELSE IF state = "ChainHead"
    THEN IF acc.staged /= <<>>
         THEN [seen EXCEPT !.blocks = blocks_reset_to(blocks, acc.staged),
                           !.state = "Blocks", !.ret = "Ok(Reset)"]
         ELSE IF NoCommonBlock(best, oldest_reorg)
              THEN [seen EXCEPT !.ret = "Err(Invalid)", !.asked = TRUE]
              ELSE [seen EXCEPT !.asked = TRUE]
    ELSE IF state = "Blocks"
    THEN IF Len(acc.staged) = 0 \/ ~acc.any_known
         THEN IF expected_hash /= None
              THEN IF UselessReset(useless_headers_count + 1)
                   THEN [seen EXCEPT !.ret = "Err(Useless)",
                                     !.blocks = reset.blocks,
                                     !.useless = reset.useless,
                                     !.state = reset.state]
                   ELSE [seen EXCEPT !.ret = "Err(Useless)",
                                     !.useless = useless_headers_count + 1]
              ELSE [seen EXCEPT !.ret = "Err(Useless)"]
         ELSE [seen EXCEPT !.blocks = blocks_insert_headers(blocks, acc.staged)]
    ELSE seen

\* round_parents never searched
RoundParentNotFound(h) == None

\* the parent recorded in round_parents for hash h: the first pair, as find() does
RoundParent(h) ==
    LET hits == {i \in 1..Len(round_parents) : round_parents[i][1] = h}
    IN  IF hits = {} THEN None
        ELSE Some(round_parents[CHOOSE i \in hits : \A j \in hits : i <= j][2])

\* start_sync_round's guard of the retract arm
NeedsRetract ==
    imported_this_round /= None /\ Unwrap(imported_this_round) = 0
    /\ last_round_start > 0

\* the test without limit_reorg
ReorgLimitHitOnAnyTrack(best, oldest_reorg) ==
    LET start == last_round_start
    IN  best > start /\ start < oldest_reorg

\* start_sync_round's test that the track cannot go further back
ReorgLimitHit(best, oldest_reorg) ==
    LET start == last_round_start
    IN  limit_reorg /\ best > start /\ start < oldest_reorg

\* start_sync_round with the step doubled before it is taken
start_sync_round_doubling_first(best, oldest_reorg, hash_at) ==
    LET start == last_round_start
        base == [state |-> "ChainHead", blocks |-> blocks,
                 useless |-> useless_headers_count,
                 lib |-> last_imported_block, lih |-> last_imported_hash,
                 retract |-> retract_step, asked |-> FALSE, probed |-> FALSE]
        gone == [base EXCEPT !.state = reset.state, !.useless = reset.useless,
                             !.blocks = reset.blocks, !.asked = TRUE]
    IN
    IF NeedsRetract
    THEN IF RoundParent(last_round_start_hash) /= None
         THEN [base EXCEPT !.lib = start - 1,
                           !.lih = Unwrap(RoundParent(last_round_start_hash))]
         ELSE IF ReorgLimitHit(best, oldest_reorg) THEN gone
         ELSE LET n == start - Min(retract_step * 2, start)
                  stepped == [base EXCEPT !.retract = retract_step * 2,
                                          !.asked = TRUE, !.probed = TRUE]
              IN  IF hash_at /= None
                  THEN [stepped EXCEPT !.lib = n, !.lih = Unwrap(hash_at)]
                  ELSE [stepped EXCEPT !.state = reset.state,
                                       !.useless = reset.useless,
                                       !.blocks = reset.blocks]
    ELSE [base EXCEPT !.retract = 1]

\* start_sync_round: [state, blocks, useless, lib, lih, retract, asked, probed];
\* hash_at is chain.block_hash's answer for the probed height
start_sync_round(best, oldest_reorg, hash_at) ==
    LET start == last_round_start
        base == [state |-> "ChainHead", blocks |-> blocks,
                 useless |-> useless_headers_count,
                 lib |-> last_imported_block, lih |-> last_imported_hash,
                 retract |-> retract_step, asked |-> FALSE, probed |-> FALSE]
        gone == [base EXCEPT !.state = reset.state, !.useless = reset.useless,
                             !.blocks = reset.blocks, !.asked = TRUE]
    IN
    IF NeedsRetract
    THEN IF RoundParent(last_round_start_hash) /= None
         THEN [base EXCEPT !.lib = start - 1,
                           !.lih = Unwrap(RoundParent(last_round_start_hash))]
         ELSE IF ReorgLimitHit(best, oldest_reorg) THEN gone
         ELSE LET n == start - Min(retract_step, start)
                  stepped == [base EXCEPT !.retract = retract_step * 2,
                                          !.asked = TRUE, !.probed = TRUE]
              IN  IF hash_at /= None
                  THEN [stepped EXCEPT !.lib = n, !.lih = Unwrap(hash_at)]
                  ELSE [stepped EXCEPT !.state = reset.state,
                                       !.useless = reset.useless,
                                       !.blocks = reset.blocks]
    ELSE [base EXCEPT !.retract = 1]

\* the skeleton request with the subchain heads one full response apart
ChainHeadRequestFullSkip(num_active_peers, start_hash) ==
    IF num_active_peers < MAX_PARALLEL_SUBCHAIN_DOWNLOAD
    THEN [ret |-> "Headers", start |-> start_hash, count |-> SUBCHAIN_SIZE,
          skip |-> MAX_HEADERS_TO_REQUEST, hashes |-> {}]
    ELSE [ret |-> "None", start |-> ZeroHash, count |-> 0, skip |-> 0,
          hashes |-> {}]

\* request_blocks in state ChainHead: the skeleton request, unless enough peers
\* download subchains already
ChainHeadRequest(num_active_peers, start_hash) ==
    IF num_active_peers < MAX_PARALLEL_SUBCHAIN_DOWNLOAD
    THEN [ret |-> "Headers", start |-> start_hash, count |-> SUBCHAIN_SIZE,
          skip |-> MAX_HEADERS_TO_REQUEST - 2, hashes |-> {}]
    ELSE [ret |-> "None", start |-> ZeroHash, count |-> 0, skip |-> 0,
          hashes |-> {}]

NoRequest ==
    [ret |-> "None", start |-> ZeroHash, count |-> 0, skip |-> 0, hashes |-> {}]

\* request_blocks in state Blocks, the hashes asked for left unmarked
BlocksRequestUnmarked ==
    LET nb == blocks_needed_bodies(blocks, MAX_BODIES_TO_REQUEST)
        nr == blocks_needed_receipts(blocks, MAX_RECEPITS_TO_REQUEST)
        nh == blocks_needed_headers(blocks, MAX_HEADERS_TO_REQUEST)
    IN  IF nb.hashes /= {}
        THEN [blocks |-> blocks,
              req |-> [NoRequest EXCEPT !.ret = "Bodies", !.hashes = nb.hashes]]
        ELSE IF download_receipts /\ nr.hashes /= {}
        THEN [blocks |-> blocks,
              req |-> [NoRequest EXCEPT !.ret = "Receipts", !.hashes = nr.hashes]]
        ELSE IF nh.request /= None
        THEN [blocks |-> nh.c,
              req |-> [NoRequest EXCEPT !.ret = "Headers",
                                        !.start = Unwrap(nh.request)[1],
                                        !.count = Unwrap(nh.request)[2],
                                        !.skip = 0]]
        ELSE [blocks |-> blocks, req |-> NoRequest]

\* request_blocks in state Blocks: [blocks, req]
BlocksRequest ==
    LET nb == blocks_needed_bodies(blocks, MAX_BODIES_TO_REQUEST)
        nr == blocks_needed_receipts(nb.c, MAX_RECEPITS_TO_REQUEST)
        nh == blocks_needed_headers(IF download_receipts THEN nr.c ELSE nb.c,
                                    MAX_HEADERS_TO_REQUEST)
    IN  IF nb.hashes /= {}
        THEN [blocks |-> nb.c,
              req |-> [NoRequest EXCEPT !.ret = "Bodies", !.hashes = nb.hashes]]
        ELSE IF download_receipts /\ nr.hashes /= {}
        THEN [blocks |-> nr.c,
              req |-> [NoRequest EXCEPT !.ret = "Receipts", !.hashes = nr.hashes]]
        ELSE IF nh.request /= None
        THEN [blocks |-> nh.c,
              req |-> [NoRequest EXCEPT !.ret = "Headers",
                                        !.start = Unwrap(nh.request)[1],
                                        !.count = Unwrap(nh.request)[2],
                                        !.skip = 0]]
        ELSE [blocks |-> nh.c, req |-> NoRequest]

\* push_back, then pop_back when over the cap
block_imported_parents_newest(rp, hash, parent) ==
    LET pushed == Append(rp, <<hash, parent>>)
    IN  IF Len(pushed) > MAX_ROUND_PARENTS THEN rp ELSE pushed

\* block_imported, on round_parents: push_back, then pop_front when over the cap
block_imported_parents(rp, hash, parent) ==
    LET pushed == Append(rp, <<hash, parent>>)
    IN  IF Len(pushed) > MAX_ROUND_PARENTS THEN Tail(pushed) ELSE pushed

\* any drained block taken for the sync target
TargetReachedAny(h) == target_hash /= None

\* collect_blocks' test that the drained block is the sync target
TargetReached(h) == target_hash /= None /\ Unwrap(target_hash) = h

StopKinds == {"UnknownParent", "TemporarilyInvalid", "QueueFull", "Other"}

\* the chain's answer to import_block / queue_ancient_block for the i-th
\* drained block: the error the chain raises at position stop, else whether it
\* has the block already
ImportResult(h, i, known, already, stop, err) ==
    IF i = stop THEN err
    ELSE IF <<h, Parent(h)>> \in known THEN "AlreadyQueued"
    ELSE IF h \in already THEN "AlreadyInChain"
    ELSE "Ok"

\* the loop of collect_blocks going on to the next block after an error
RECURSIVE ImportDrainedPastError(_, _, _, _, _, _, _)
ImportDrainedPastError(drained, i, acc, allow_out_of_order, already, stop, err) ==
    IF i > Len(drained) THEN acc
    ELSE
    LET h == drained[i]
        result == ImportResult(h, i, Range(acc.log), already, stop, err)
        taken == [acc EXCEPT
                    !.lib = Number(h), !.lih = h,
                    !.rp = block_imported_parents(acc.rp, h, Parent(h)),
                    !.log = Append(acc.log, <<h, Parent(h)>>)]
    IN
    IF TargetReached(h) THEN [acc EXCEPT !.complete = TRUE]
    ELSE IF result \in {"AlreadyInChain", "AlreadyQueued"}
    THEN ImportDrainedPastError(drained, i + 1, taken, allow_out_of_order,
                                already, stop, err)
    ELSE IF result = "Ok"
    THEN ImportDrainedPastError(drained, i + 1,
                       [taken EXCEPT !.imported = acc.imported + 1],
                       allow_out_of_order, already, stop, err)
    ELSE ImportDrainedPastError(drained, i + 1,
                       IF result \in {"QueueFull", "Other"}
                       THEN [acc EXCEPT !.action = "Reset"] ELSE acc,
                       allow_out_of_order, already, stop, err)

\* the loop of collect_blocks with every error arm asking for a reset
RECURSIVE ImportDrainedResetOnAnyError(_, _, _, _, _, _, _)
ImportDrainedResetOnAnyError(drained, i, acc, allow_out_of_order, already, stop, err) ==
    IF i > Len(drained) THEN acc
    ELSE
    LET h == drained[i]
        result == ImportResult(h, i, Range(acc.log), already, stop, err)
        taken == [acc EXCEPT
                    !.lib = Number(h), !.lih = h,
                    !.rp = block_imported_parents(acc.rp, h, Parent(h)),
                    !.log = Append(acc.log, <<h, Parent(h)>>)]
    IN
    IF TargetReached(h) THEN [acc EXCEPT !.complete = TRUE]
    ELSE IF result \in {"AlreadyInChain", "AlreadyQueued"}
    THEN ImportDrainedResetOnAnyError(drained, i + 1, taken,
                                      allow_out_of_order, already, stop, err)
    ELSE IF result = "Ok"
    THEN ImportDrainedResetOnAnyError(drained, i + 1,
                       [taken EXCEPT !.imported = acc.imported + 1],
                       allow_out_of_order, already, stop, err)
    ELSE [acc EXCEPT !.action = "Reset"]

\* the loop of collect_blocks counting a block the chain already has as imported
RECURSIVE ImportDrainedCountingKnown(_, _, _, _, _, _, _)
ImportDrainedCountingKnown(drained, i, acc, allow_out_of_order, already, stop, err) ==
    IF i > Len(drained) THEN acc
    ELSE
    LET h == drained[i]
        result == ImportResult(h, i, Range(acc.log), already, stop, err)
        taken == [acc EXCEPT
                    !.lib = Number(h), !.lih = h,
                    !.rp = block_imported_parents(acc.rp, h, Parent(h)),
                    !.log = Append(acc.log, <<h, Parent(h)>>),
                    !.imported = acc.imported + 1]
    IN
    IF TargetReached(h) THEN [acc EXCEPT !.complete = TRUE]
    ELSE IF result \in {"AlreadyInChain", "AlreadyQueued", "Ok"}
    THEN ImportDrainedCountingKnown(drained, i + 1, taken,
                                    allow_out_of_order, already, stop, err)
    ELSE IF result \in {"QueueFull", "Other"} THEN [acc EXCEPT !.action = "Reset"]
    ELSE acc

\* collect_blocks, the loop over the drained blocks.  acc = [lib, lih, rp, log,
\* imported, action, complete]
RECURSIVE ImportDrained(_, _, _, _, _, _, _)
ImportDrained(drained, i, acc, allow_out_of_order, already, stop, err) ==
    IF i > Len(drained) THEN acc
    ELSE
    LET h == drained[i]
        result == ImportResult(h, i, Range(acc.log), already, stop, err)
        taken == [acc EXCEPT
                    !.lib = Number(h), !.lih = h,
                    !.rp = block_imported_parents(acc.rp, h, Parent(h)),
                    !.log = Append(acc.log, <<h, Parent(h)>>)]
    IN
    IF TargetReached(h) THEN [acc EXCEPT !.complete = TRUE]
    ELSE IF result \in {"AlreadyInChain", "AlreadyQueued"}
    THEN ImportDrained(drained, i + 1, taken, allow_out_of_order, already, stop, err)
    ELSE IF result = "Ok"
    THEN ImportDrained(drained, i + 1,
                       [taken EXCEPT !.imported = acc.imported + 1],
                       allow_out_of_order, already, stop, err)
    ELSE IF result = "UnknownParent" /\ allow_out_of_order THEN acc
    ELSE IF result = "UnknownParent" THEN acc
    ELSE IF result = "TemporarilyInvalid" THEN acc
    ELSE IF result = "QueueFull" THEN [acc EXCEPT !.action = "Reset"]
    ELSE [acc EXCEPT !.action = "Reset"]

\* a round closed as soon as no header is left, heads or not
RoundCompleteDrained(c) == c.headers = {}

\* collect_blocks' test that closes the round
RoundComplete(c) == blocks_is_empty(c)

(***************************************************************************)
(* The operations.                                                         *)
(***************************************************************************)
Starts == {<<"g", 0>>}

\* the two tracks: new blocks without a target, old blocks up to a target
Tracks == {<<"NewBlocks", None>>, <<"OldBlocks", Some("a")>>}

\* BlockDownloader::new(block_set, start_hash, start_number), then set_target
\* for the track that has one
Init ==
    /\ \E t \in Tracks : block_set = t[1] /\ target_hash = t[2]
    /\ state = "Idle"
    /\ highest_block = None
    /\ \E s \in Starts :
          /\ last_imported_block = s[2]
          /\ last_imported_hash = s[1]
          /\ last_round_start = s[2]
          /\ last_round_start_hash = s[1]
    /\ blocks = blocks_new
    /\ imported_this_round = None
    /\ round_parents = <<>>
    /\ retract_step = 1
    /\ useless_headers_count = 0
    /\ import_log = <<>>
    /\ called_complete = FALSE
    /\ in_flight = {}

Reset ==
    \E o \in {reset} :
    /\ blocks' = o.blocks
    /\ useless_headers_count' = o.useless
    /\ state' = o.state
    /\ called_complete' = FALSE
    /\ UNCHANGED <<block_set, highest_block, last_imported_block,
                   last_imported_hash, imported_this_round, last_round_start,
                   last_round_start_hash, round_parents, target_hash,
                   retract_step, import_log>>

\* reset_to(hashes)
ResetTo(hashes) ==
    /\ blocks' = blocks_reset_to(reset.blocks, hashes)
    /\ useless_headers_count' = reset.useless
    /\ state' = "Blocks"
    /\ called_complete' = FALSE
    /\ UNCHANGED <<block_set, highest_block, last_imported_block,
                   last_imported_hash, imported_this_round, last_round_start,
                   last_round_start_hash, round_parents, target_hash,
                   retract_step, import_log>>

\* mark_as_known without the test on the number
mark_as_known_any(hash, number) ==
    [lib |-> number, lih |-> hash,
     itr |-> Some(UnwrapOr(imported_this_round, 0) + 1),
     lrs |-> number, lrsh |-> hash]

\* mark_as_known(hash, number): [lib, lih, itr, lrs, lrsh]
mark_as_known(hash, number) ==
    IF number >= last_imported_block + 1
    THEN [lib |-> number, lih |-> hash,
          itr |-> Some(UnwrapOr(imported_this_round, 0) + 1),
          lrs |-> number, lrsh |-> hash]
    ELSE [lib |-> last_imported_block, lih |-> last_imported_hash,
          itr |-> imported_this_round,
          lrs |-> last_round_start, lrsh |-> last_round_start_hash]

MarkAsKnown(hash, number) ==
    \E o \in {mark_as_known(hash, number)} :
    /\ UnwrapOr(o.itr, 0) <= MaxImportedThisRound
    /\ last_imported_block' = o.lib
    /\ last_imported_hash' = o.lih
    /\ imported_this_round' = o.itr
    /\ last_round_start' = o.lrs
    /\ last_round_start_hash' = o.lrsh
    /\ UNCHANGED called_complete
    /\ UNCHANGED <<block_set, state, highest_block, blocks, round_parents,
                   target_hash, retract_step, useless_headers_count,
                   import_log>>

\* clear_header_download(hash), clear_body_download(hashes),
\* clear_receipt_download(hashes)
ClearDownload(kind, hs) ==
    /\ blocks' = CASE kind = "header" ->
                        blocks_clear_header_download(blocks, CHOOSE h \in hs : TRUE)
                   [] kind = "body" -> blocks_clear_body_download(blocks, hs)
                   [] OTHER -> blocks_clear_receipt_download(blocks, hs)
    /\ UNCHANGED called_complete
    /\ UNCHANGED <<block_set, state, highest_block, last_imported_block,
                   last_imported_hash, imported_this_round, last_round_start,
                   last_round_start_hash, round_parents, target_hash,
                   retract_step, useless_headers_count, import_log>>

\* a headers response with a header that is not in the collection and that the
\* chain reports as Bad
HasNewBad(r) ==
    \E i \in 1..Len(r) : r[i] \in BadHashes /\ ~blocks_contains(blocks, r[i])

\* a well-formed headers response that answers the request (it holds the
\* expected hash) and advances nothing: every header of it is in the
\* collection already, or none of them is a subchain head
IsUselessResponse(r, expected_hash) ==
    /\ r /= <<>>
    /\ Junk \notin Range(r)
    /\ ~HasNewBad(r)
    /\ expected_hash /= None /\ Unwrap(expected_hash) \in Range(r)
    /\ \/ \A i \in 1..Len(r) : blocks_contains(blocks, r[i])
       \/ \A i \in 1..Len(r) : ~blocks_contains_head(blocks, r[i])

\* import_headers(io, r, expected_hash); max_useless stops the count of
\* useless responses
ImportHeaders(r, expected_hash, best, oldest_reorg, max_useless) ==
    \E o \in {import_headers(r, expected_hash, best, oldest_reorg)} :
    /\ o.useless <= max_useless
    /\ state' = o.state
    /\ blocks' = o.blocks
    /\ highest_block' = o.highest
    /\ useless_headers_count' = o.useless
    /\ called_complete' = (called_complete \/ state = "Complete")
    /\ UNCHANGED <<block_set, last_imported_block, last_imported_hash,
                   imported_this_round, last_round_start, last_round_start_hash,
                   round_parents, target_hash, retract_step, import_log>>

\* import_bodies without the test on the state
import_bodies_any_state(r) ==
    IF Len(r) = 0 THEN [ret |-> "Err(Useless)", blocks |-> blocks]
    ELSE IF Junk \in Range(r) THEN [ret |-> "Err(Invalid)", blocks |-> blocks]
    ELSE LET ins == blocks_insert_bodies(blocks, r, 1, 0)
         IN  IF ins.matched /= Len(r)
             THEN [ret |-> "Err(Invalid)", blocks |-> ins.c]
             ELSE [ret |-> "Ok", blocks |-> ins.c]

\* import_bodies(r): [ret, blocks]
import_bodies(r) ==
    IF Len(r) = 0 THEN [ret |-> "Err(Useless)", blocks |-> blocks]
    ELSE IF state /= "Blocks" THEN [ret |-> "Ok", blocks |-> blocks]
    ELSE IF Junk \in Range(r) THEN [ret |-> "Err(Invalid)", blocks |-> blocks]
    ELSE LET ins == blocks_insert_bodies(blocks, r, 1, 0)
         IN  IF ins.matched /= Len(r)
             THEN [ret |-> "Err(Invalid)", blocks |-> ins.c]
             ELSE [ret |-> "Ok", blocks |-> ins.c]

\* import_receipts without the test on the state
import_receipts_any_state(r) ==
    IF Len(r) = 0 THEN [ret |-> "Err(Useless)", blocks |-> blocks]
    ELSE IF Junk \in Range(r) THEN [ret |-> "Err(Invalid)", blocks |-> blocks]
    ELSE LET ins == blocks_insert_receipts(blocks, r, 1, 0)
         IN  IF ins.matched /= Len(r)
             THEN [ret |-> "Err(Invalid)", blocks |-> ins.c]
             ELSE [ret |-> "Ok", blocks |-> ins.c]

\* import_receipts(io, r): [ret, blocks]
import_receipts(r) ==
    IF Len(r) = 0 THEN [ret |-> "Err(Useless)", blocks |-> blocks]
    ELSE IF state /= "Blocks" THEN [ret |-> "Ok", blocks |-> blocks]
    ELSE IF Junk \in Range(r) THEN [ret |-> "Err(Invalid)", blocks |-> blocks]
    ELSE LET ins == blocks_insert_receipts(blocks, r, 1, 0)
         IN  IF ins.matched /= Len(r)
             THEN [ret |-> "Err(Invalid)", blocks |-> ins.c]
             ELSE [ret |-> "Ok", blocks |-> ins.c]

ImportBodies(r) ==
    \E o \in {import_bodies(r)} :
    /\ blocks' = o.blocks
    /\ called_complete' = (called_complete \/ state = "Complete")
    /\ UNCHANGED <<block_set, state, highest_block, last_imported_block,
                   last_imported_hash, imported_this_round, last_round_start,
                   last_round_start_hash, round_parents, target_hash,
                   retract_step, useless_headers_count, import_log>>

ImportReceipts(r) ==
    \E o \in {import_receipts(r)} :
    /\ blocks' = o.blocks
    /\ called_complete' = (called_complete \/ state = "Complete")
    /\ UNCHANGED <<block_set, state, highest_block, last_imported_block,
                   last_imported_hash, imported_this_round, last_round_start,
                   last_round_start_hash, round_parents, target_hash,
                   retract_step, useless_headers_count, import_log>>

\* request_blocks(io, num_active_peers): the Idle arm starts a round and, when
\* that left the state ChainHead, recurses into the ChainHead arm
request_blocks(num_active_peers, best, oldest_reorg, hash_at) ==
    LET keep == [state |-> state, blocks |-> blocks,
                 useless |-> useless_headers_count,
                 lib |-> last_imported_block, lih |-> last_imported_hash,
                 retract |-> retract_step, lrs |-> last_round_start,
                 lrsh |-> last_round_start_hash, itr |-> imported_this_round,
                 asked |-> FALSE, probed |-> FALSE, req |-> NoRequest]
    IN
    CASE state = "Idle" ->
           LET s == start_sync_round(best, oldest_reorg, hash_at)
           IN  [state |-> s.state, blocks |-> s.blocks, useless |-> s.useless,
                lib |-> s.lib, lih |-> s.lih, retract |-> s.retract,
                lrs |-> s.lib, lrsh |-> s.lih, itr |-> None,
                asked |-> s.asked, probed |-> s.probed,
                req |-> IF s.state = "ChainHead"
                        THEN ChainHeadRequest(num_active_peers, s.lih)
                        ELSE NoRequest]
      [] state = "ChainHead" ->
           [keep EXCEPT !.req = ChainHeadRequest(num_active_peers,
                                                 last_imported_hash)]
      [] state = "Blocks" ->
           LET b == BlocksRequest
           IN  [keep EXCEPT !.blocks = b.blocks, !.req = b.req]
      [] OTHER -> keep

\* max_retract stops the doubling of retract_step
RequestBlocksUpTo(num_active_peers, best, oldest_reorg, hash_at, max_retract) ==
    \E o \in {request_blocks(num_active_peers, best, oldest_reorg, hash_at)} :
    /\ o.retract <= max_retract
    /\ state' = o.state
    /\ blocks' = o.blocks
    /\ useless_headers_count' = o.useless
    /\ last_imported_block' = o.lib
    /\ last_imported_hash' = o.lih
    /\ retract_step' = o.retract
    /\ last_round_start' = o.lrs
    /\ last_round_start_hash' = o.lrsh
    /\ imported_this_round' = o.itr
    /\ called_complete' = (called_complete \/ state = "Complete")
    /\ UNCHANGED <<block_set, highest_block, round_parents, target_hash,
                   import_log>>

RequestBlocks(num_active_peers, best, oldest_reorg, hash_at) ==
    RequestBlocksUpTo(num_active_peers, best, oldest_reorg, hash_at,
                      MaxRetractStep)

\* collect_blocks(io, allow_out_of_order): [state, blocks, useless, lib, lih,
\* rp, log, itr, ret]
collect_blocks(allow_out_of_order, already, stop, err) ==
    LET d == blocks_drain(blocks, download_receipts)
        acc == ImportDrained(d.drained, 1,
                   [lib |-> last_imported_block, lih |-> last_imported_hash,
                    rp |-> round_parents, log |-> import_log, imported |-> 0,
                    action |-> "None", complete |-> FALSE],
                   allow_out_of_order, already, stop, err)
        out == [state |-> state, blocks |-> d.c,
                useless |-> useless_headers_count,
                lib |-> acc.lib, lih |-> acc.lih, rp |-> acc.rp,
                log |-> acc.log, itr |-> imported_this_round,
                ret |-> acc.action]
        counted == [out EXCEPT !.itr = Some(UnwrapOr(imported_this_round, 0)
                                            + acc.imported)]
    IN
    IF acc.complete THEN [out EXCEPT !.state = "Complete"]
    ELSE IF RoundComplete(d.c)
    THEN [counted EXCEPT !.blocks = reset.blocks, !.useless = reset.useless,
                         !.state = reset.state]
    ELSE counted

\* the blocks the next collect_blocks call drains
Drainable == blocks_drain(blocks, download_receipts).drained

\* max_log stops the number of blocks treated as imported over the run,
\* max_round the count of one round
CollectBlocks(allow_out_of_order, already, stop, err, max_log, max_round) ==
    \E o \in {collect_blocks(allow_out_of_order, already, stop, err)} :
    /\ Len(o.log) <= max_log
    /\ UnwrapOr(o.itr, 0) <= max_round
    /\ state' = o.state
    /\ blocks' = o.blocks
    /\ useless_headers_count' = o.useless
    /\ last_imported_block' = o.lib
    /\ last_imported_hash' = o.lih
    /\ round_parents' = o.rp
    /\ import_log' = o.log
    /\ imported_this_round' = o.itr
    /\ called_complete' = (called_complete \/ state = "Complete")
    /\ UNCHANGED <<block_set, highest_block, last_round_start,
                   last_round_start_hash, target_hash, retract_step>>

(***************************************************************************)
(* What peers send and the chain answers.                                  *)
(***************************************************************************)
BodyItems == GoodHashes \cup {Junk}
HeaderItems == Hashes \cup {Junk}
Oracle == 0..OracleMax
Peers == {MAX_PARALLEL_SUBCHAIN_DOWNLOAD - 1, MAX_PARALLEL_SUBCHAIN_DOWNLOAD}
Expected(S) == {None} \cup {Some(h) : h \in S}

\* the calls that ask the chain for its best block and earliest state, and for
\* the hash at a height
HeadersAsk(r) == state = "ChainHead" /\ r = <<>>
RoundAsks == state = "Idle" /\ NeedsRetract /\ RoundParent(last_round_start_hash) = None
BestAnswers(asks) == IF asks THEN Oracle ELSE {0}
ProbeHeight == last_round_start - Min(retract_step, last_round_start)
ProbeAnswers == IF RoundAsks THEN {None, Some(HashAt(ProbeHeight))} ELSE {None}

(***************************************************************************)
(* Spec: every operation of the downloader, with well-formed responses.     *)
(***************************************************************************)
Next ==
    \/ /\ \E r \in Seq2(GoodHashes), e \in Expected(GoodHashes) :
             \E best \in BestAnswers(HeadersAsk(r)),
                oldest_reorg \in BestAnswers(HeadersAsk(r)) :
                ImportHeaders(r, e, best, oldest_reorg, 0)
       /\ UNCHANGED in_flight
    \/ /\ \E r \in Seq2(GoodHashes) : ImportBodies(r)
       /\ UNCHANGED in_flight
    \/ /\ \E r \in Seq2(GoodHashes) : ImportReceipts(r)
       /\ UNCHANGED in_flight
    \/ /\ \E n \in Peers, best \in BestAnswers(RoundAsks),
             oldest_reorg \in BestAnswers(RoundAsks), hash_at \in ProbeAnswers :
             RequestBlocks(n, best, oldest_reorg, hash_at)
       /\ UNCHANGED in_flight
    \/ /\ \E allow \in BOOLEAN, already \in SUBSET Range(Drainable),
             stop \in 0..Len(Drainable) :
             \E err \in IF stop = 0 THEN {"Other"} ELSE StopKinds :
                CollectBlocks(allow, already, stop, err, MaxImports,
                              MaxImportedThisRound)
       /\ UNCHANGED in_flight
    \/ /\ \E h \in GoodHashes : MarkAsKnown(h, Number(h))
       /\ UNCHANGED in_flight
    \/ /\ \E kind \in {"header", "body", "receipt"}, h \in GoodHashes :
             ClearDownload(kind, {h})
       /\ UNCHANGED in_flight
    \/ /\ Reset
       /\ UNCHANGED in_flight
    \/ /\ ResetTo(<<"g", "a">>)
       /\ UNCHANGED in_flight

Spec == Init /\ [][Next]_vars

(***************************************************************************)
(* SpecIntake: the intake of headers responses of every shape, bad and     *)
(* undecodable items included, and the calls that open and close rounds.   *)
(***************************************************************************)
NextIntake ==
    \/ /\ \E r \in Seq2(HeaderItems), e \in Expected(Hashes) :
             \E best \in BestAnswers(HeadersAsk(r)),
                oldest_reorg \in BestAnswers(HeadersAsk(r)) :
                ImportHeaders(r, e, best, oldest_reorg, MaxUselessCount)
       /\ UNCHANGED in_flight
    \/ /\ \E n \in Peers, best \in BestAnswers(RoundAsks),
             oldest_reorg \in BestAnswers(RoundAsks), hash_at \in ProbeAnswers :
             RequestBlocks(n, best, oldest_reorg, hash_at)
       /\ UNCHANGED in_flight
    \/ /\ \E h \in GoodHashes : MarkAsKnown(h, Number(h))
       /\ UNCHANGED in_flight
    \/ /\ Reset
       /\ UNCHANGED in_flight

SpecIntake == Init /\ [][NextIntake]_vars

(***************************************************************************)
(* SpecRound: round after round of the new-blocks track with a peer that   *)
(* answers every request with the chain g <- a, the coordinator closing    *)
(* the round once its headers are drained.                                 *)
(***************************************************************************)
InitRound == Init /\ block_set = "NewBlocks"

NextRound ==
    \/ /\ ImportHeaders(<<"g", "a">>, Some("g"), 0, 0, 0)
       /\ UNCHANGED in_flight
    \/ /\ \E r \in {<<"g">>, <<"a">>, <<"g", "a">>} : ImportBodies(r)
       /\ UNCHANGED in_flight
    \/ /\ RequestBlocks(0, 0, 0, None)
       /\ UNCHANGED in_flight
    \/ /\ CollectBlocks(FALSE, {}, 0, "Other", MaxImportsRound,
                        Cardinality(GoodHashes))
       /\ UNCHANGED in_flight
    \/ /\ blocks.headers = {} /\ Reset
       /\ UNCHANGED in_flight

SpecRound == InitRound /\ [][NextRound]_vars

(***************************************************************************)
(* SpecFlight: a coordinator serving two peers.  It hands each idle peer   *)
(* the request request_blocks returns, feeds a peer's response to the      *)
(* intake, reports a lost peer with clear_*_download, and discards every   *)
(* outstanding request when a call returns DownloadAction::Reset.          *)
(***************************************************************************)
FlightPeers == {"p", "q"}

\* the peers with a request outstanding
ActivePeers == {q.peer : q \in in_flight}

\* the outstanding requests after a call that returned ret
AfterAction(ret, rest) == IF ret \in {"Reset", "Ok(Reset)"} THEN {} ELSE rest

FlightRequest(p) ==
    /\ p \notin ActivePeers
    /\ \E best \in BestAnswers(RoundAsks), hash_at \in ProbeAnswers :
          /\ RequestBlocks(Cardinality(ActivePeers), best, best, hash_at)
          /\ \E o \in {request_blocks(Cardinality(ActivePeers), best, best,
                                      hash_at)} :
                in_flight' = IF o.req.ret = "None" THEN in_flight
                             ELSE in_flight \cup {[peer |-> p, req |-> o.req]}

FlightHeaders(q) ==
    /\ q.req.ret = "Headers"
    /\ \E r \in Seq2(GoodHashes) :
          \E best \in BestAnswers(HeadersAsk(r)) :
             /\ ImportHeaders(r, Some(q.req.start), best, best, MaxUselessCount)
             /\ in_flight' =
                   AfterAction(import_headers(r, Some(q.req.start), best,
                                              best).ret,
                               in_flight \ {q})

FlightBodies(q) ==
    /\ q.req.ret = "Bodies"
    /\ \E r \in Seq2(q.req.hashes) : ImportBodies(r)
    /\ in_flight' = in_flight \ {q}

FlightReceipts(q) ==
    /\ q.req.ret = "Receipts"
    /\ \E r \in Seq2(q.req.hashes) : ImportReceipts(r)
    /\ in_flight' = in_flight \ {q}

\* the peer of request q is lost before it responds
FlightPeerLost(q) ==
    /\ CASE q.req.ret = "Headers" -> ClearDownload("header", {q.req.start})
          [] q.req.ret = "Bodies" -> ClearDownload("body", q.req.hashes)
          [] OTHER -> ClearDownload("receipt", q.req.hashes)
    /\ in_flight' = in_flight \ {q}

\* a peer is lost after its headers response was taken: the coordinator
\* returns the reservation the response left in place
FlightPeerDropped(h) ==
    /\ h \in blocks.downloading_headers
    /\ \A q \in in_flight : ~(q.req.ret = "Headers" /\ q.req.start = h)
    /\ ClearDownload("header", {h})
    /\ UNCHANGED in_flight

FlightCollect ==
    \E stop \in 0..Len(Drainable) :
       \E err \in IF stop = 0 THEN {"Other"} ELSE StopKinds :
          /\ CollectBlocks(FALSE, {}, stop, err, MaxImports,
                           MaxImportedThisRound)
          /\ in_flight' =
                AfterAction(collect_blocks(FALSE, {}, stop, err).ret, in_flight)

NextFlight ==
    \/ \E p \in FlightPeers : FlightRequest(p)
    \/ \E q \in in_flight : FlightHeaders(q)
    \/ \E q \in in_flight : FlightBodies(q)
    \/ \E q \in in_flight : FlightReceipts(q)
    \/ \E q \in in_flight : FlightPeerLost(q)
    \/ \E h \in GoodHashes : FlightPeerDropped(h)
    \/ FlightCollect

SpecFlight == Init /\ [][NextFlight]_vars

(***************************************************************************)
(* SpecAncient: the rounds of SpecRound on both tracks, no target set, the *)
(* peer sending receipts as well, the chain answering the probes of a      *)
(* retract or not and holding some of the drained blocks already, and the  *)
(* coordinator installing the skeleton g, a by reset_to and reporting      *)
(* blocks as known.                                                        *)
(***************************************************************************)
InitAncient ==
    /\ block_set \in {"NewBlocks", "OldBlocks"}
    /\ target_hash = None
    /\ state = "Idle"
    /\ highest_block = None
    /\ \E s \in Starts :
          /\ last_imported_block = s[2]
          /\ last_imported_hash = s[1]
          /\ last_round_start = s[2]
          /\ last_round_start_hash = s[1]
    /\ blocks = blocks_new
    /\ imported_this_round = None
    /\ round_parents = <<>>
    /\ retract_step = 1
    /\ useless_headers_count = 0
    /\ import_log = <<>>
    /\ called_complete = FALSE
    /\ in_flight = {}

NextAncient ==
    \/ /\ ImportHeaders(<<"g", "a">>, Some("g"), 0, 0, 0)
       /\ UNCHANGED in_flight
    \/ /\ \E r \in {<<"g">>, <<"a">>, <<"g", "a">>} : ImportBodies(r)
       /\ UNCHANGED in_flight
    \/ /\ \E r \in {<<"g">>, <<"a">>, <<"g", "a">>} : ImportReceipts(r)
       /\ UNCHANGED in_flight
    \/ /\ \E hash_at \in ProbeAnswers : RequestBlocks(0, 0, 0, hash_at)
       /\ UNCHANGED in_flight
    \/ /\ \E already \in SUBSET Range(Drainable) :
             CollectBlocks(FALSE, already, 0, "Other",
                           Cardinality(GoodHashes) * (MaxImports + 1),
                           Cardinality(GoodHashes))
       /\ UNCHANGED in_flight
    \/ /\ blocks.headers = {} /\ Reset
       /\ UNCHANGED in_flight
    \/ /\ ResetTo(<<"g", "a">>)
       /\ UNCHANGED in_flight
    \/ /\ \E h \in GoodHashes : MarkAsKnown(h, Number(h))
       /\ UNCHANGED in_flight

SpecAncient == InitAncient /\ [][NextAncient]_vars

(***************************************************************************)
(* SpecRetract: the search for the common block.  The downloader was       *)
(* constructed at a height up to MaxHeight; its rounds find no header to   *)
(* import, the chain answers every probe with its block at the height, and *)
(* now and then the block after the last imported one is announced.        *)
(***************************************************************************)
MaxHeight == 100

\* the hash of the chain's block at height n
CanonHash(n) == <<"canon", n>>

InitRetract ==
    /\ \E t \in Tracks : block_set = t[1] /\ target_hash = t[2]
    /\ state = "Idle"
    /\ highest_block = None
    /\ \E n \in 0..MaxHeight :
          /\ last_imported_block = n
          /\ last_imported_hash = CanonHash(n)
          /\ last_round_start = n
          /\ last_round_start_hash = CanonHash(n)
    /\ blocks = blocks_new
    /\ imported_this_round = None
    /\ round_parents = <<>>
    /\ retract_step = 1
    /\ useless_headers_count = 0
    /\ import_log = <<>>
    /\ called_complete = FALSE
    /\ in_flight = {}

RetractRequest ==
    /\ \E best \in Oracle, oldest_reorg \in Oracle :
          RequestBlocksUpTo(0, best, oldest_reorg,
                            Some(CanonHash(ProbeHeight)), 2 * MaxHeight)
    /\ UNCHANGED in_flight

\* collect_blocks with nothing to drain closes the round
RetractRoundOver ==
    /\ state /= "Idle"
    /\ CollectBlocks(FALSE, {}, 0, "Other", 0, MaxImportedThisRound)
    /\ UNCHANGED in_flight

\* the block after the last imported one is reported as known
RetractBlockKnown ==
    /\ last_imported_block < MaxHeight
    /\ MarkAsKnown(CanonHash(last_imported_block + 1), last_imported_block + 1)
    /\ UNCHANGED in_flight

NextRetract == RetractRequest \/ RetractRoundOver \/ RetractBlockKnown

SpecRetract == InitRetract /\ [][NextRetract]_vars

(***************************************************************************)
(* Properties of the intake of headers (checked under SpecIntake).          *)
(***************************************************************************)
\* what a second useless response does in the state at hand: an error, and
\* the downloader left in state Idle with an empty collection
SecondUselessResets ==
    \A r \in Seq2(HeaderItems), e \in Expected(Hashes) :
        IsUselessResponse(r, e) =>
            \E o \in {import_headers(r, e, 0, 0)} :
                /\ o.ret = "Err(Useless)"
                /\ o.state = "Idle"
                /\ blocks_is_empty(o.blocks)

\* C1: in state Blocks with more than one subchain head, when a useless
\* headers response has just been answered with an error (the step counted
\* it and left the state Blocks), a second useless response right after it
\* returns an error and leaves the downloader Idle with an empty collection.
C1_TwoUselessResponsesReset ==
    [][(/\ state = "Blocks"
        /\ blocks_heads_len(blocks) > 1
        /\ useless_headers_count' = useless_headers_count + 1
        /\ state' = "Blocks")
       => SecondUselessResets']_vars

\* C2: in state Blocks with exactly one head, whatever the number of useless
\* responses counted so far, a useless headers response returns an error,
\* leaves the state Blocks and the collection non-empty.
C2_OneHeadNeverResets ==
    (state = "Blocks" /\ blocks_heads_len(blocks) = 1) =>
        \A r \in Seq2(HeaderItems), e \in Expected(Hashes) :
            IsUselessResponse(r, e) =>
                \E o \in {import_headers(r, e, 0, 0)} :
                    /\ o.ret = "Err(Useless)"
                    /\ o.state = "Blocks"
                    /\ ~blocks_is_empty(o.blocks)

\* one head, and as many useless responses counted as would reset a round of
\* several heads, with a useless response at hand
C2_Witness ==
    /\ state = "Blocks"
    /\ blocks_heads_len(blocks) = 1
    /\ useless_headers_count >= MAX_USELESS_HEADERS_PER_ROUND
    /\ \E r \in Seq2(HeaderItems), e \in Expected(Hashes) :
          IsUselessResponse(r, e)

\* C9: no Bad header is in the collection, and in state ChainHead or Blocks a
\* headers response that holds a Bad header not in the collection returns
\* Invalid and leaves the collection and the state as they were, whatever
\* else the response holds and whatever the chain answers.
C9_BadHeaderNeverAdmitted ==
    /\ blocks.headers \cap BadHashes = {}
    /\ Range(blocks.heads) \cap BadHashes = {}
    /\ state \in {"ChainHead", "Blocks"} =>
          \A r \in Seq2(HeaderItems), e \in Expected(Hashes) :
              HasNewBad(r) =>
                  \A best \in Oracle, oldest_reorg \in Oracle :
                      \E o \in {import_headers(r, e, best, oldest_reorg)} :
                          /\ o.ret = "Err(Invalid)"
                          /\ o.blocks = blocks
                          /\ o.state = state

\* a round with collected headers in which a response with a Bad header was
\* handled: its number is the highest seen
C9_Witness ==
    /\ state = "Blocks"
    /\ blocks.headers /= {}
    /\ \E x \in BadHashes : highest_block = Some(Number(x))

\* what an empty headers response does in state ChainHead, when Invalid is
\* returned exactly under the condition invalid(best, oldest_reorg)
EmptyInChainHead(invalid(_, _)) ==
    state = "ChainHead" =>
        \A e \in Expected(Hashes), best \in Oracle, oldest_reorg \in Oracle :
            \E o \in {import_headers(<<>>, e, best, oldest_reorg)} :
                /\ o.ret = IF invalid(best, oldest_reorg)
                           THEN "Err(Invalid)" ELSE "Ok(None)"
                /\ o.state = state
                /\ o.blocks = blocks

ClaimedInvalid(best, oldest_reorg) ==
    /\ limit_reorg
    /\ best > last_imported_block
    /\ last_imported_block > 0
    /\ last_imported_block < oldest_reorg

AmendedInvalid(best, oldest_reorg) ==
    /\ limit_reorg
    /\ best > last_imported_block
    /\ (last_imported_block = 0 \/ last_imported_block < oldest_reorg)

\* C10 as stated: an empty headers response in state ChainHead returns
\* Invalid exactly when limit_reorg and best_block > last_imported_block > 0
\* and last_imported_block < earliest_state, and Ok with no action otherwise;
\* state and collection are unchanged.
C10_EmptyInvalidWhenPositive == EmptyInChainHead(ClaimedInvalid)

\* C10, amended: an empty headers response in state ChainHead returns Invalid
\* exactly when limit_reorg and best_block > last_imported_block and
\* (last_imported_block = 0 or last_imported_block < earliest_state), and Ok
\* with no action otherwise; state and collection are unchanged.
C10_EmptyInvalidWhenZeroOrPruned == EmptyInChainHead(AmendedInvalid)

\* state ChainHead on the track that limits reorgs, nothing imported yet, and
\* a chain whose best block is above 0: the empty response returns Invalid
C10_Witness ==
    /\ state = "ChainHead"
    /\ limit_reorg
    /\ last_imported_block = 0
    /\ \E best \in Oracle :
          import_headers(<<>>, None, best, 0).ret = "Err(Invalid)"

(***************************************************************************)
(* Properties of the whole downloader (checked under Spec).                *)
(***************************************************************************)
\* the hashes block_imported was given by the step at hand
NewlyCommitted ==
    {import_log'[i][1] : i \in (Len(import_log) + 1)..Len(import_log')}

\* C3 as stated: state = Complete holds only after a block whose hash equals
\* target_hash has been committed to the chain by collect_blocks.
C3_CompleteAfterTargetCommitted ==
    state = "Complete" =>
        (target_hash /= None /\ Unwrap(target_hash) \in committed)

\* C3, amended: the state becomes Complete only in a step in which
\* collect_blocks drains a block whose hash equals target_hash; that step
\* does not submit the block to the chain.
C3_CompleteAfterTargetDrained ==
    [][(state /= "Complete" /\ state' = "Complete") =>
          /\ target_hash /= None
          /\ Unwrap(target_hash) \in Range(Drainable)
          /\ blocks' = blocks_drain(blocks, download_receipts).c
          /\ Unwrap(target_hash) \notin NewlyCommitted]_vars

\* Complete with a block imported on the way, the target not among the
\* blocks committed
C3_Witness ==
    /\ state = "Complete"
    /\ import_log /= <<>>
    /\ Unwrap(target_hash) \notin committed

C5_LastImportedNeverDecreases ==
    [][last_imported_block' >= last_imported_block]_vars

\* C5, amended: last_imported_block never decreases across import_headers,
\* import_bodies, import_receipts and mark_as_known; the only steps that
\* lower it are a request_blocks call that opens a round by retracting and
\* a collect_blocks call that imports a block.
C5_LastImportedLoweredOnlyByRetractOrImport ==
    [][last_imported_block' < last_imported_block =>
          \/ /\ state = "Idle"
             /\ NeedsRetract
             /\ imported_this_round' = None
             /\ last_round_start' = last_imported_block'
          \/ /\ import_log' /= import_log
             /\ last_imported_block' = Number(import_log'[Len(import_log')][1])]_vars

\* request_blocks has retracted by probing the chain, down to block 0
C5_Witness ==
    /\ retract_step > 1
    /\ last_imported_block = 0
    /\ last_round_start = 0

\* C6 as stated: when highest_block is set, highest_block >=
\* last_imported_block.
C6_HighestAboveLastImported ==
    highest_block /= None => Unwrap(highest_block) >= last_imported_block

\* C6, amended: highest_block is set and at least the number of every header
\* in the collection and of every block collect_blocks imported; it can be
\* below a last_imported_block that new() or mark_as_known set.
C6_HighestAboveCollected ==
    \A h \in blocks.headers \cup committed :
        highest_block /= None /\ Unwrap(highest_block) >= Number(h)

\* headers collected and highest_block below last_imported_block
C6_Witness ==
    /\ blocks.headers /= {}
    /\ highest_block /= None
    /\ Unwrap(highest_block) < last_imported_block

\* C8: a reset() step leaves state = Idle, the collection empty and
\* useless_headers_count = 0, and leaves last_imported_block,
\* last_imported_hash, round_parents, target_hash, retract_step,
\* highest_block, last_round_start and last_round_start_hash unchanged.
C8_ResetFrame ==
    [][Reset =>
          /\ state' = "Idle"
          /\ blocks' = blocks_new
          /\ blocks_is_empty(blocks')
          /\ useless_headers_count' = 0
          /\ UNCHANGED <<last_imported_block, last_imported_hash,
                         round_parents, target_hash, retract_step,
                         highest_block, last_round_start,
                         last_round_start_hash>>]_vars

\* Idle with an empty collection after a round that saw headers, imported a
\* block and retracted: what reset() kept
C8_Witness ==
    /\ state = "Idle"
    /\ blocks = blocks_new
    /\ round_parents /= <<>>
    /\ highest_block /= None
    /\ retract_step > 1

(***************************************************************************)
(* Properties of the record of round parents (checked under SpecRound).    *)
(***************************************************************************)
\* the last n elements of s
LastN(s, n) == IF Len(s) <= n THEN s ELSE SubSeq(s, Len(s) - n + 1, Len(s))

\* C7: round_parents never holds more than MAX_ROUND_PARENTS pairs, and it is
\* the most recent pairs block_imported was given, in import order.
C7_RoundParentsAreMostRecent ==
    /\ Len(round_parents) <= MAX_ROUND_PARENTS
    /\ round_parents = LastN(import_log, MAX_ROUND_PARENTS)

\* more blocks imported than round_parents holds
C7_Witness ==
    /\ Len(import_log) > MAX_ROUND_PARENTS
    /\ Len(round_parents) = MAX_ROUND_PARENTS

(***************************************************************************)
(* Properties of the intake of bodies and receipts (checked under Spec).   *)
(***************************************************************************)
\* C11 as stated: on the track that does not download receipts, a receipts
\* response returns Useless in every state, empty or not.
C11_ReceiptsUselessWithoutReceipts ==
    ~download_receipts =>
        \A r \in Seq2(BodyItems) : import_receipts(r).ret = "Err(Useless)"

\* C11, amended: on the track that does not download receipts, a receipts
\* response is treated as on the other track: an empty one returns Useless,
\* a non-empty one returns Ok outside state Blocks, and in state Blocks it
\* returns Invalid unless it decodes and the collection matches every item
\* of it, and Ok then.
C11_ReceiptsWithoutReceipts ==
    ~download_receipts =>
        \A r \in Seq2(BodyItems) :
            import_receipts(r).ret =
                IF r = <<>> THEN "Err(Useless)"
                ELSE IF state /= "Blocks" THEN "Ok"
                ELSE IF Junk \in Range(r) THEN "Err(Invalid)"
                ELSE IF blocks_insert_receipts(blocks, r, 1, 0).matched = Len(r)
                THEN "Ok" ELSE "Err(Invalid)"

\* the track without receipts, in a round of state Blocks with headers
\* collected and bodies asked for
C11_Witness ==
    /\ ~download_receipts
    /\ state = "Blocks"
    /\ blocks.headers /= {}
    /\ blocks.downloading_bodies /= {}

\* what a bodies and a receipts response do outside state Blocks, when an
\* empty response returns empty_ret: nothing, and Ok for a non-empty one
DiscardedOutsideBlocks(empty_ret) ==
    state /= "Blocks" =>
        \A r \in Seq2(BodyItems) :
            \E b \in {import_bodies(r)}, c \in {import_receipts(r)} :
                /\ b.blocks = blocks
                /\ c.blocks = blocks
                /\ b.ret = IF r = <<>> THEN empty_ret ELSE "Ok"
                /\ c.ret = IF r = <<>> THEN empty_ret ELSE "Ok"

\* C12 as stated: outside state Blocks a bodies or receipts response returns
\* Ok and changes nothing, empty or not.
C12_DiscardedWithOk == DiscardedOutsideBlocks("Ok")

\* C12, amended: outside state Blocks a non-empty bodies or receipts
\* response returns Ok and changes nothing; an empty one returns Useless
\* and changes nothing.
C12_DiscardedEmptyUseless == DiscardedOutsideBlocks("Err(Useless)")

\* Complete, with a body still asked for that may yet arrive
C12_Witness ==
    /\ state = "Complete"
    /\ blocks.downloading_bodies /= {}

(***************************************************************************)
(* Properties of the requests in flight (checked under SpecFlight).        *)
(***************************************************************************)
\* the pieces a request asks for: the bodies or receipts of its hashes, or
\* the headers from its start hash on
Pieces(req) ==
    IF req.ret = "Headers" THEN {<<"header", req.start>>}
    ELSE {<<req.ret, h>> : h \in req.hashes}

\* no two of the requests qs ask for the same piece
Disjoint(qs) ==
    \A q1 \in qs, q2 \in qs :
        q1 /= q2 => Pieces(q1.req) \cap Pieces(q2.req) = {}

\* C13: at no time are two requests in flight for the same piece (header,
\* body or receipts) of the same hash.
C13_NoPieceRequestedTwice == Disjoint(in_flight)

\* C13, the requests into the collection alone (bodies, receipts and the
\* headers of a subchain, the requests of state ChainHead left out): no two
\* of them in flight ask for the same piece.
C13_NoCollectionPieceRequestedTwice ==
    Disjoint({q \in in_flight : q.req.skip = 0})

\* C13, amended: at no time are two requests in flight for the body of the
\* same hash or for the receipts of the same hash.
C13_NoBodyRequestedTwice ==
    Disjoint({q \in in_flight : q.req.ret /= "Headers"})

\* both peers hold a bodies request
C13_Witness ==
    \E q1 \in in_flight, q2 \in in_flight :
        q1 /= q2 /\ q1.req.ret = "Bodies" /\ q2.req.ret = "Bodies"

(***************************************************************************)
(* Properties of collect_blocks (checked under Spec).                      *)
(***************************************************************************)
\* the import of the block at position stop of the drained blocks is
\* reached: no block up to it is the target
StopReached(stop) ==
    /\ stop >= 1
    /\ \A i \in 1..stop : ~TargetReached(Drainable[i])

\* C14: collect_blocks returns Reset exactly when the drain was stopped by
\* QueueFull or by an unclassified import error; it returns None when every
\* import ended Ok, AlreadyInChain or AlreadyQueued, when the drain was
\* stopped by UnknownParent (whatever allow_out_of_order) or by
\* TemporarilyInvalid, and when the target was reached.
C14_ResetIffQueueFullOrOther ==
    \A allow \in BOOLEAN, already \in SUBSET Range(Drainable),
       stop \in 0..Len(Drainable), err \in StopKinds :
        collect_blocks(allow, already, stop, err).ret =
            IF StopReached(stop) /\ err \in {"QueueFull", "Other"}
            THEN "Reset" ELSE "None"

\* two blocks are ready to be drained and the first is not the target
C14_Witness ==
    /\ state = "Blocks"
    /\ Len(Drainable) = 2
    /\ ~TargetReached(Drainable[1])

\* the pairs block_imported is given for the first n drained blocks
ImportedPrefix(n) ==
    [i \in 1..n |-> <<Drainable[i], Parent(Drainable[i])>>]

\* C15: when an import stops the drain, the blocks treated as imported in
\* that call are exactly the drained blocks before the failing one, no
\* later one, and last_imported_block and last_imported_hash are those of
\* the block just before the failing one (unchanged when it is the first).
C15_StopsAtFailingBlock ==
    \A allow \in BOOLEAN, already \in SUBSET Range(Drainable),
       stop \in 1..Len(Drainable), err \in StopKinds :
        StopReached(stop) =>
            \E o \in {collect_blocks(allow, already, stop, err)} :
                /\ o.log = import_log \o ImportedPrefix(stop - 1)
                /\ o.lih = IF stop = 1 THEN last_imported_hash
                           ELSE Drainable[stop - 1]
                /\ o.lib = IF stop = 1 THEN last_imported_block
                           ELSE Number(Drainable[stop - 1])

\* two blocks are ready to be drained on the track without a target
C15_Witness ==
    /\ state = "Blocks"
    /\ target_hash = None
    /\ Len(Drainable) = 2

(***************************************************************************)
(* Properties of the intake of a skeleton (checked under SpecIntake).      *)
(***************************************************************************)
\* the items of response r that are not in the collection, in response order
NotContained(r) == SelectSeq(r, LAMBDA h : ~blocks_contains(blocks, h))

\* response r, sent for expected_hash, is taken in state ChainHead and stages
\* a header: every item decodes, none is a new Bad block, the expected hash
\* is among them, and one of them is not in the collection
StagesSkeleton(r, expected_hash) ==
    /\ state = "ChainHead"
    /\ Junk \notin Range(r)
    /\ ~HasNewBad(r)
    /\ expected_hash /= None /\ Unwrap(expected_hash) \in Range(r)
    /\ NotContained(r) /= <<>>

\* C16: in state ChainHead a valid headers response that stages at least
\* one header replaces the whole collection by a skeleton whose heads are
\* the staged hashes in response order, sets the state to Blocks and
\* returns Reset; no other outcome of import_headers returns Reset.
C16_SkeletonInstalledWithReset ==
    \A r \in Seq2(HeaderItems), e \in Expected(Hashes), best \in Oracle,
       oldest_reorg \in Oracle :
        \E o \in {import_headers(r, e, best, oldest_reorg)} :
            /\ o.ret = "Ok(Reset)" <=> StagesSkeleton(r, e)
            /\ StagesSkeleton(r, e) =>
                  /\ o.state = "Blocks"
                  /\ o.blocks = [blocks_new EXCEPT !.heads = NotContained(r)]

\* a skeleton of two heads was installed in the order of the response
C16_Witness ==
    /\ state = "Blocks"
    /\ blocks = [blocks_new EXCEPT !.heads = <<"a", "g">>]

(***************************************************************************)
(* Properties of the start of a round (checked under Spec).                *)
(***************************************************************************)
\* a round started now finds nothing imported in the last one, a start above
\* zero and no parent recorded for it, and then cannot step back: the track
\* may not reorganize that far, or the chain has no block at the height
RetractFails(best, oldest_reorg, hash_at) ==
    /\ imported_this_round = Some(0)
    /\ last_round_start > 0
    /\ \A i \in 1..Len(round_parents) :
          round_parents[i][1] /= last_round_start_hash
    /\ \/ limit_reorg /\ best > last_round_start
                      /\ last_round_start < oldest_reorg
       \/ hash_at = None

\* what request_blocks leaves behind when called in state Idle: a new round
\* (its start is the last imported block, nothing counted yet) and the state
\* after(...) tells
StartsRound(after(_, _, _)) ==
    state = "Idle" =>
        \A n \in Peers, best \in Oracle, oldest_reorg \in Oracle,
           hash_at \in {None, Some(HashAt(ProbeHeight))} :
            \E o \in {request_blocks(n, best, oldest_reorg, hash_at)} :
                /\ o.itr = None
                /\ o.lrs = o.lib /\ o.lrsh = o.lih
                /\ o.state = after(best, oldest_reorg, hash_at)

AlwaysChainHead(best, oldest_reorg, hash_at) == "ChainHead"

IdleWhenRetractFails(best, oldest_reorg, hash_at) ==
    IF RetractFails(best, oldest_reorg, hash_at) THEN "Idle" ELSE "ChainHead"

\* C17 as stated: request_blocks called in state Idle always begins a new
\* round and leaves the state ChainHead.
C17_IdleLeavesChainHead == StartsRound(AlwaysChainHead)

\* C17, amended: request_blocks called in state Idle always begins a new
\* round; it leaves the state ChainHead unless the retract fails, and then
\* it leaves the state Idle.
C17_IdleLeavesChainHeadUnlessRetractFails == StartsRound(IdleWhenRetractFails)

\* Idle, with a round behind that imported nothing and whose start has no
\* recorded parent
C17_Witness ==
    /\ state = "Idle"
    /\ NeedsRetract
    /\ RoundParent(last_round_start_hash) = None

\* a request_blocks call made now with fewer than 5 active peers returns,
\* whatever the chain answers, a Headers request of count 256 and skip 126
\* that starts at the last imported hash the call leaves
NextRequestIsSkeleton ==
    \A n \in {p \in Peers : p < 5}, best \in Oracle, oldest_reorg \in Oracle,
       hash_at \in {None, Some(HashAt(ProbeHeight))} :
        \E o \in {request_blocks(n, best, oldest_reorg, hash_at)} :
            o.req = [ret |-> "Headers", start |-> o.lih, count |-> 256,
                     skip |-> 126, hashes |-> {}]

\* C18: after reset() the downloader is in state Idle, and from state Idle
\* request_blocks calls with fewer than 5 active peers return the Headers
\* request (start last_imported_hash, count 256, skip 126) within two calls:
\* whatever the first call did, the call after it returns that request.
C18_SkeletonWithinTwoCalls ==
    [][(/\ state = "Idle"
        /\ \E n \in Peers, best \in Oracle, oldest_reorg \in Oracle,
              hash_at \in {None, Some(HashAt(ProbeHeight))} :
              RequestBlocks(n, best, oldest_reorg, hash_at))
       => NextRequestIsSkeleton']_vars

\* a request_blocks call after a reset() has failed to step back and left
\* the state Idle with the retract step doubled
C18_Witness ==
    /\ state = "Idle"
    /\ blocks = blocks_new /\ useless_headers_count = 0
    /\ imported_this_round = None
    /\ retract_step > 1

(***************************************************************************)
(* Properties of the retract (checked under SpecRetract).                  *)
(***************************************************************************)
\* a round started now steps back by probing the chain: nothing was imported
\* in the last round, its start is above zero and has no recorded parent,
\* and the track may reorganize that far
ProbesChain(best, oldest_reorg) ==
    /\ imported_this_round = Some(0)
    /\ last_round_start > 0
    /\ \A i \in 1..Len(round_parents) :
          round_parents[i][1] /= last_round_start_hash
    /\ ~(limit_reorg /\ best > last_round_start
                     /\ last_round_start < oldest_reorg)

\* C19: a chain-probing retract moves the search point back by
\* min(retract_step, last_round_start), to the chain's hash at that height,
\* and doubles retract_step: from height 100 it probes 99 and then 97,
\* leaving steps 2 and then 4.  A round started after a round that imported
\* something takes no retract and sets retract_step to 1.
C19_RetractArithmetic ==
    state = "Idle" =>
        \A best \in Oracle, oldest_reorg \in Oracle :
            \E o \in {request_blocks(0, best, oldest_reorg,
                                     Some(CanonHash(ProbeHeight)))} :
                /\ ProbesChain(best, oldest_reorg) =>
                      /\ o.lib = last_round_start
                                 - (IF retract_step < last_round_start
                                    THEN retract_step ELSE last_round_start)
                      /\ o.lih = CanonHash(o.lib)
                      /\ o.retract = retract_step + retract_step
                      /\ (last_round_start = 100 /\ retract_step = 1) =>
                             o.lib = 99 /\ o.retract = 2
                      /\ (last_round_start = 99 /\ retract_step = 2) =>
                             o.lib = 97 /\ o.retract = 4
                /\ (imported_this_round /= None
                    /\ Unwrap(imported_this_round) > 0) =>
                      /\ o.retract = 1
                      /\ o.lib = last_imported_block
                      /\ o.lih = last_imported_hash

\* the search that started at height 100 has probed 99 and 97
C19_Witness ==
    /\ last_imported_block = 97
    /\ last_imported_hash = CanonHash(97)
    /\ retract_step = 4

(***************************************************************************)
(* Properties of the retract by round_parents (checked under SpecAncient). *)
(***************************************************************************)
\* Idle after a round that imported nothing, started above zero at a block
\* that round_parents holds a pair for
RetractsByRoundParents ==
    /\ state = "Idle"
    /\ imported_this_round = Some(0)
    /\ last_round_start > 0
    /\ \E i \in 1..Len(round_parents) :
          round_parents[i][1] = last_round_start_hash

\* C20: with imported_this_round = Some(0), last_round_start > 0 and a pair
\* for last_round_start_hash in round_parents, the round start moves the
\* search point to (last_round_start - 1, that pair's parent) without
\* consulting the chain, without reset() and without changing retract_step,
\* on either track.
C20_RetractByRoundParents ==
    RetractsByRoundParents =>
        \A n \in Peers, best \in Oracle, oldest_reorg \in Oracle,
           hash_at \in {None, Some(HashAt(ProbeHeight))} :
            \E o \in {request_blocks(n, best, oldest_reorg, hash_at)} :
                /\ o.lib = last_round_start - 1
                /\ \E i \in 1..Len(round_parents) :
                      round_parents[i] = <<last_round_start_hash, o.lih>>
                /\ ~o.asked /\ ~o.probed
                /\ o.state = "ChainHead"
                /\ o.blocks = blocks /\ o.useless = useless_headers_count
                /\ o.retract = retract_step

\* the case on the track that does not limit reorganizations, the retract
\* step doubled by an earlier probe
C20_Witness == RetractsByRoundParents /\ ~limit_reorg /\ retract_step > 1

C22_InsertClearsUselessCount ==
    [][(/\ state = "Blocks" /\ state' = "Blocks"
        /\ blocks'.headers /= blocks.headers)
       => useless_headers_count' = 0]_vars


(* Properties of the end of collect_blocks (checked under Spec). *)
\* the drain runs to its end or to an import error without meeting the target
TargetNotReached(stop) ==
    \A i \in 1..Len(Drainable) :
        TargetReached(Drainable[i]) =>
            /\ stop >= 1 /\ stop < i
            /\ \A j \in 1..stop : ~TargetReached(Drainable[j])

\* the blocks a call submitted with result Ok: the submissions it logged that
\* were neither in the chain nor queued before
ImportedOk(log, already) ==
    Cardinality({i \in (Len(import_log) + 1)..Len(log) :
                    /\ log[i][1] \notin already
                    /\ \A j \in 1..(i - 1) : log[j] /= log[i]})

\* C23: every collect_blocks call that does not reach the target adds its
\* imported count to imported_this_round, turning None into Some, and closes
\* the round with reset() (state Idle, empty collection, useless count 0)
\* exactly when the collection is empty after the drain; when it is not
\* empty the state is unchanged.
C23_CountsAndClosesRound ==
    \A allow \in BOOLEAN, already \in SUBSET Range(Drainable),
       stop \in 0..Len(Drainable), err \in StopKinds :
        TargetNotReached(stop) =>
            \E o \in {collect_blocks(allow, already, stop, err)},
               c \in {blocks_drain(blocks, download_receipts).c} :
                /\ o.itr = Some(UnwrapOr(imported_this_round, 0)
                                + ImportedOk(o.log, already))
                /\ IF blocks_is_empty(c)
                   THEN /\ o.state = "Idle" /\ o.blocks = blocks_new
                        /\ o.useless = 0
                   ELSE /\ o.state = state /\ o.blocks = c
                        /\ o.useless = useless_headers_count

\* a round without a count yet with a block ready to be drained, the target
\* not among the ready blocks, and a head left in the collection after it
C23_Witness ==
    /\ state = "Blocks" /\ imported_this_round = None
    /\ Len(Drainable) >= 1 /\ TargetNotReached(0)
    /\ ~blocks_is_empty(blocks_drain(blocks, download_receipts).c)


(* Properties of the imported count (checked under SpecAncient). *)
\* what a collect_blocks call does with the blocks the chain already has
KnownBlocksMoveThePoint ==
    \A allow \in BOOLEAN, already \in SUBSET Range(Drainable),
       stop \in 0..Len(Drainable), err \in StopKinds :
        TargetNotReached(stop) =>
            \E o \in {collect_blocks(allow, already, stop, err)} :
                /\ o.itr = Some(UnwrapOr(imported_this_round, 0)
                                + ImportedOk(o.log, already))
                /\ (ImportedOk(o.log, already) = 0 /\ imported_this_round = None)
                       => o.itr = Some(0)
                /\ Len(o.log) > Len(import_log) =>
                       \E last \in {o.log[Len(o.log)]} :
                           /\ o.lib = Number(last[1]) /\ o.lih = last[1]
                           /\ o.rp /= <<>> /\ o.rp[Len(o.rp)] = last

\* start_sync_round taking its retract arm from last_round_start: the step by
\* round_parents, the step by retract_step, or giving up with reset()
RetractsFromRoundStart ==
    \A n \in Peers, best \in Oracle, oldest \in Oracle,
       hash_at \in {None, Some(HashAt(ProbeHeight))} :
        \E o \in {request_blocks(n, best, oldest, hash_at)} :
            \/ /\ RoundParent(last_round_start_hash) /= None
               /\ o.lib = last_round_start - 1
               /\ o.lih = Unwrap(RoundParent(last_round_start_hash))
            \/ /\ RoundParent(last_round_start_hash) = None
               /\ o.state = "Idle"
            \/ /\ RoundParent(last_round_start_hash) = None
               /\ o.lib = ProbeHeight
               /\ o.retract = retract_step * 2

\* C24 as stated: collect_blocks adds to imported_this_round exactly the
\* number of drained blocks submitted with result Ok; blocks answered
\* AlreadyInChain or AlreadyQueued move last_imported_* and round_parents
\* without being counted, so a round of such blocks only ends with
\* imported_this_round = Some(0), and the next round start takes the retract
\* path from last_round_start.
C24_KnownBlocksRetract ==
    /\ KnownBlocksMoveThePoint
    /\ (state = "Idle" /\ imported_this_round = Some(0)) => RetractsFromRoundStart

\* C24 amended: the same, with the retract path taken when last_round_start
\* is above 0; a round that started at height 0 is followed by a round that
\* starts at the moved last_imported_block with retract_step 1.
C24_KnownBlocksRetractAboveZero ==
    /\ KnownBlocksMoveThePoint
    /\ (state = "Idle" /\ imported_this_round = Some(0))
           => IF last_round_start > 0 THEN RetractsFromRoundStart
              ELSE \A n \in Peers, best \in Oracle, oldest \in Oracle :
                      \E o \in {request_blocks(n, best, oldest, None)} :
                          /\ o.lib = last_imported_block
                          /\ o.lrs = last_imported_block
                          /\ o.retract = 1 /\ o.state = "ChainHead"

\* a round above height 0 is over with nothing counted, its last submission
\* was of a block already queued, and last_imported_block has left the
\* round's start
C24_Witness ==
    /\ state = "Idle" /\ imported_this_round = Some(0)
    /\ last_round_start > 0 /\ last_imported_block /= last_round_start
    /\ import_log /= <<>>
    /\ \E j \in 1..(Len(import_log) - 1) : import_log[j] = import_log[Len(import_log)]


(* Properties of the collection outside a round (checked under SpecFlight). *)
\* no heads, no headers, no bodies or receipts, no downloading marks
CollectionEmpty ==
    /\ blocks.heads = <<>> /\ blocks.headers = {}
    /\ blocks.bodies = {} /\ blocks.receipts = {}
    /\ blocks.downloading_headers = {} /\ blocks.downloading_bodies = {}
    /\ blocks.downloading_receipts = {}

\* a step that puts a header, a body or a receipt into the collection
Inserts ==
    \/ blocks'.headers \ blocks.headers /= {}
    \/ blocks'.bodies \ blocks.bodies /= {}
    \/ blocks'.receipts \ blocks.receipts /= {}

\* C25: in every reachable state, state = Idle or state = ChainHead implies
\* that the collection is empty (no heads, no headers, no downloading marks)
\* and that useless_headers_count = 0; headers, bodies and receipts are only
\* ever inserted while state = Blocks.
C25_EmptyOutsideBlocks ==
    /\ [](state \in {"Idle", "ChainHead"}
          => CollectionEmpty /\ useless_headers_count = 0)
    /\ [][Inserts => state = "Blocks"]_vars

\* a round is being opened after a round that filled the collection and handed
\* a block to the chain
C25_Witness ==
    /\ state = "ChainHead" /\ import_log /= <<>>
    /\ CollectionEmpty /\ useless_headers_count = 0

====
